---- MODULE Spec2Model ----
(***************************************************************************)
(* Kitchen orders panel (admin/cocina.js): the in-memory order list, the   *)
(* status filter, the rendered orders container and the asynchronous       *)
(* requests to the order store issued through ApiClient.                   *)
(***************************************************************************)
EXTENDS Integers, Sequences, FiniteSets, TLC

----------------------------------------------------------------------------
(* Bounds of the model *)

\* longest order list of a response that mixes fechas
MaxOrdenes == 3
\* longest order list of a response that mixes estados
MaxMezcla == 2
\* most requests awaiting their response at the same time
MaxEnVuelo == 2
\* longest order list of a response while requests overlap
MaxLista == 1

----------------------------------------------------------------------------
(* JavaScript values *)

\* the value of an absent property
Undefined == "undefined"
\* the value request() returns after a 401
Null == "null"

\* truthiness of the values the model stores in descriptor flags
Truthy(v) == v \notin {"false", Undefined, Null, ""}

----------------------------------------------------------------------------
(* Order data *)

EstadosActivos == {"pendiente", "confirmado", "en_preparacion", "en_camino"}
EstadosConocidos == EstadosActivos \cup {"entregado", "anulado", "cancelado"}
\* names every object literal inherits from Object.prototype
PropiedadesHeredadas == {"constructor"}
\* estado strings the descriptor table has no own or inherited property for
EstadosDesconocidos == {"desconocido"}
Estados == EstadosConocidos \cup PropiedadesHeredadas \cup EstadosDesconocidos

\* fecha values of an order: ISO strings, two of them naming the same instant,
\* and the absent property
FechaTemprana == "2024-05-01T12:00:00"
FechaTardia == "2024-05-02T12:00:00"
FechaTardiaMs == "2024-05-02T12:00:00.000"
Fechas == {FechaTemprana, FechaTardia, FechaTardiaMs, Undefined}

\* new Date(fecha): the time value in hours since 2024-05-01T00:00, or NaN
NuevaFecha(fecha) ==
    CASE fecha = FechaTemprana -> [nan |-> FALSE, valor |-> 12]
      [] fecha = FechaTardia -> [nan |-> FALSE, valor |-> 36]
      [] fecha = FechaTardiaMs -> [nan |-> FALSE, valor |-> 36]
      [] OTHER -> [nan |-> TRUE, valor |-> 0]

\* d1 - d2 on two Date objects
RestaFechas(d1, d2) ==
    IF d1.nan \/ d2.nan
    THEN [nan |-> TRUE, valor |-> 0]
    ELSE [nan |-> FALSE, valor |-> d1.valor - d2.valor]

----------------------------------------------------------------------------
(* Order Status Engine *)

\* the descriptor of a table entry that offers a forward transition
ConBoton(texto, clase, colorBorder, botonTexto, botonClase, siguienteEstado) ==
    [texto |-> texto, clase |-> clase, colorBorder |-> colorBorder,
     mostrarBotonEstado |-> "true", botonTexto |-> botonTexto,
     botonClase |-> botonClase, siguienteEstado |-> siguienteEstado]

\* the descriptor of a table entry without button properties
SinBoton(texto, clase, colorBorder, mostrar) ==
    [texto |-> texto, clase |-> clase, colorBorder |-> colorBorder,
     mostrarBotonEstado |-> mostrar, botonTexto |-> Undefined,
     botonClase |-> Undefined, siguienteEstado |-> Undefined]

\* the object literal `estados`, own properties only
estados ==
    [e \in EstadosConocidos |->
        CASE e = "pendiente" ->
               ConBoton("Pendiente", "bg-secondary", "secondary",
                        "Confirmar Pedido", "primary", "confirmado")
          [] e = "confirmado" ->
               ConBoton("Confirmado", "bg-primary", "primary",
                        "Iniciar Preparación", "warning", "en_preparacion")
          [] e = "en_preparacion" ->
               ConBoton("En Preparación", "bg-warning text-dark", "warning",
                        "Listo para Envío", "info", "en_camino")
          [] e = "en_camino" -> SinBoton("En Camino", "bg-info", "info", "false")
          [] e = "entregado" -> SinBoton("Entregado", "bg-success", "success", "false")
          [] e = "anulado" -> SinBoton("Anulado", "bg-danger", "danger", "false")
          [] e = "cancelado" -> SinBoton("Cancelado", "bg-danger", "danger", "false")]

\* obtenerInfoEstadoCocina with confirmado advancing straight to en_camino
obtenerInfoEstadoCocinaSalto(estado) ==
    IF estado = "confirmado"
    THEN ConBoton("Confirmado", "bg-primary", "primary",
                  "Iniciar Preparación", "warning", "en_camino")
    ELSE IF estado \in DOMAIN estados
    THEN estados[estado]
    ELSE IF estado \in PropiedadesHeredadas
         THEN SinBoton(Undefined, Undefined, Undefined, Undefined)
         ELSE SinBoton(estado, "bg-secondary", "secondary", "false")

\* estados[estado] || fallback: the property lookup also finds what the literal
\* inherits from Object.prototype, a function object with none of the
\* descriptor's properties
obtenerInfoEstadoCocina(estado) ==
    IF estado \in DOMAIN estados
    THEN estados[estado]
    ELSE IF estado \in PropiedadesHeredadas
         THEN SinBoton(Undefined, Undefined, Undefined, Undefined)
         ELSE SinBoton(estado, "bg-secondary", "secondary", "false")

----------------------------------------------------------------------------
(* Filtering and sorting *)

\* PasaFiltro with 'todos' filtering nothing out
PasaFiltroTodo(o, filtro) ==
    IF filtro = "todos" THEN TRUE ELSE o.estado = filtro

\* PasaFiltro with the kitchen-relevant restriction applied under every filter
PasaFiltroSoloActivos(o, filtro) ==
    /\ o.estado \in EstadosActivos
    /\ filtro # "todos" => o.estado = filtro

\* the callbacks of ordenesActuales.filter
PasaFiltro(o, filtro) ==
    IF filtro = "todos"
    THEN o.estado \in EstadosActivos
    ELSE o.estado = filtro

Filtrar(ordenes, filtro) == SelectSeq(ordenes, LAMBDA o : PasaFiltro(o, filtro))

\* the comparefn of ordenesFiltradas.sort
Comparar(a, b) == RestaFechas(NuevaFecha(b.fecha), NuevaFecha(a.fecha))

\* what Array.prototype.sort makes of comparefn's result: NaN counts as +0
SortCompare(a, b) ==
    LET v == Comparar(a, b) IN IF v.nan THEN 0 ELSE v.valor

\* comparefn is a consistent comparator for the elements of s
ComparadorConsistente(s) ==
    LET I == 1..Len(s)
        Ig(i, j) == SortCompare(s[i], s[j]) = 0
        Me(i, j) == SortCompare(s[i], s[j]) < 0
        Ma(i, j) == SortCompare(s[i], s[j]) > 0
    IN  /\ \A i \in I : Ig(i, i)
        /\ \A i, j \in I : (Ig(i, j) => Ig(j, i)) /\ (Me(i, j) <=> Ma(j, i))
        /\ \A i, j, k \in I :
             /\ (Ig(i, j) /\ Ig(j, k)) => Ig(i, k)
             /\ (Me(i, j) /\ Me(j, k)) => Me(i, k)
             /\ (Ma(i, j) /\ Ma(j, k)) => Ma(i, k)

\* x placed after every element of the sorted s that does not sort after it
RECURSIVE Insertar(_, _)
Insertar(s, x) ==
    IF s = <<>> THEN <<x>>
    ELSE IF SortCompare(s[Len(s)], x) <= 0
         THEN Append(s, x)
         ELSE Append(Insertar(SubSeq(s, 1, Len(s) - 1), x), s[Len(s)])

\* the stable sort of s under comparefn
RECURSIVE OrdenarEstable(_)
OrdenarEstable(s) ==
    IF s = <<>> THEN <<>>
    ELSE Insertar(OrdenarEstable(SubSeq(s, 1, Len(s) - 1)), s[Len(s)])

Permutaciones(s) ==
    LET I == 1..Len(s)
    IN  {[i \in I |-> s[p[i]]] :
            p \in {q \in [I -> I] : \A i, j \in I : q[i] = q[j] => i = j}}

\* the arrays Array.prototype.sort may leave: the stable sort, or an
\* implementation-defined order when comparefn is not consistent
Ordenar(s) ==
    IF ComparadorConsistente(s) THEN {OrdenarEstable(s)} ELSE Permutaciones(s)

----------------------------------------------------------------------------
(* Rendering of the order list *)

\* Botones with 'Marcar Entregado' also offered on delivered orders
BotonesEntregado(orden) ==
    LET estadoInfo == obtenerInfoEstadoCocina(orden.estado)
    IN  (IF Truthy(estadoInfo.mostrarBotonEstado)
         THEN <<[texto |-> estadoInfo.botonTexto,
                 nuevoEstado |-> estadoInfo.siguienteEstado]>>
         ELSE <<>>)
        \o (IF orden.estado \in {"en_camino", "entregado"}
            THEN <<[texto |-> "Marcar Entregado", nuevoEstado |-> "entregado"]>>
            ELSE <<>>)

\* the transition buttons of one order card, in document order
Botones(orden) ==
    LET estadoInfo == obtenerInfoEstadoCocina(orden.estado)
    IN  (IF Truthy(estadoInfo.mostrarBotonEstado)
         THEN <<[texto |-> estadoInfo.botonTexto,
                 nuevoEstado |-> estadoInfo.siguienteEstado]>>
         ELSE <<>>)
        \o (IF orden.estado = "en_camino"
            THEN <<[texto |-> "Marcar Entregado", nuevoEstado |-> "entregado"]>>
            ELSE <<>>)

\* the card renderizarOrdenes builds for one order
Tarjeta(orden) ==
    [orden |-> orden,
     insignia |-> obtenerInfoEstadoCocina(orden.estado).texto,
     botones |-> Botones(orden)]

\* contents of #ordenes-container
Inicial == [tipo |-> "inicial", mensaje |-> "", tarjetas |-> <<>>]
Spinner == [tipo |-> "spinner", mensaje |-> "", tarjetas |-> <<>>]
PanelError(mensaje) == [tipo |-> "error", mensaje |-> mensaje, tarjetas |-> <<>>]
Tarjetas(ordenadas) ==
    [tipo |-> "tarjetas", mensaje |-> "",
     tarjetas |-> [i \in 1..Len(ordenadas) |-> Tarjeta(ordenadas[i])]]

\* renderizarOrdenes with the container left on display beside the empty state
renderizarOrdenesSinOcultar(ordenes, filtro, previo) ==
    {IF Len(ordenadas) = 0
     THEN [contenedor |-> previo, contenedorDisplay |-> "block",
           vacioDisplay |-> "block"]
     ELSE [contenedor |-> Tarjetas(ordenadas), contenedorDisplay |-> "block",
           vacioDisplay |-> "none"] :
        ordenadas \in Ordenar(Filtrar(ordenes, filtro))}

\* the DOM states renderizarOrdenes may leave, given the list, the filter and
\* the container's current content
renderizarOrdenes(ordenes, filtro, previo) ==
    {IF Len(ordenadas) = 0
     THEN [contenedor |-> previo, contenedorDisplay |-> "none",
           vacioDisplay |-> "block"]
     ELSE [contenedor |-> Tarjetas(ordenadas), contenedorDisplay |-> "block",
           vacioDisplay |-> "none"] :
        ordenadas \in Ordenar(Filtrar(ordenes, filtro))}

----------------------------------------------------------------------------
(* ApiClient *)

\* JSON values the pages read: null, an array of orders, or an object with
\* the properties rol, detail, message and access_token
ValorNull ==
    [tipo |-> "null", elementos |-> <<>>, rol |-> Undefined,
     detail |-> Undefined, message |-> Undefined, access_token |-> Undefined]
Arreglo(elementos) ==
    [tipo |-> "array", elementos |-> elementos, rol |-> Undefined,
     detail |-> Undefined, message |-> Undefined, access_token |-> Undefined]
Objeto(rol, detail, message) ==
    [tipo |-> "object", elementos |-> <<>>, rol |-> rol,
     detail |-> detail, message |-> message, access_token |-> Undefined]
Credencial(access_token) ==
    [tipo |-> "object", elementos |-> <<>>, rol |-> Undefined,
     detail |-> Undefined, message |-> Undefined, access_token |-> access_token]

\* what fetch settles with: a rejection, or a response with status and body
FetchRechazado == [llega |-> FALSE, status |-> 0, data |-> ValorNull]
Respuesta(status, data) == [llega |-> TRUE, status |-> status, data |-> data]

\* outcomes of request(): a returned value or a thrown Error, and whether
\* logout() ran
Retorna(valor, logout) ==
    [lanza |-> FALSE, valor |-> valor, mensaje |-> "", logout |-> logout]
Lanza(mensaje) ==
    [lanza |-> TRUE, valor |-> ValorNull, mensaje |-> mensaje, logout |-> FALSE]

\* EsLogin with no endpoint spared the session handling of a 401
EsLoginNunca(endpoint) == FALSE

\* endpoint.includes('/auth/login')
EsLogin(endpoint) == endpoint = "/auth/login"

\* ApiClient.request from the settling of fetch on
request(endpoint, resp) ==
    IF ~resp.llega THEN Lanza("Failed to fetch")
    ELSE IF resp.status = 401 /\ ~EsLogin(endpoint) THEN Retorna(ValorNull, TRUE)
    ELSE IF resp.status \notin 200..299
         THEN IF resp.data.tipo = "null"
              THEN Lanza("Cannot read properties of null (reading 'detail')")
              ELSE IF Truthy(resp.data.detail) THEN Lanza(resp.data.detail)
              ELSE IF Truthy(resp.data.message) THEN Lanza(resp.data.message)
              ELSE Lanza("Error en la peticion")
         ELSE Retorna(resp.data, FALSE)

----------------------------------------------------------------------------
(* Ticket Formatter *)

\* values of the order properties the ticket prints: numbers, strings and
\* the absent property
Num(n) == [tipo |-> "number", num |-> n, str |-> ""]
Str(t) == [tipo |-> "string", num |-> 0, str |-> t]
NaN == [tipo |-> "nan", num |-> 0, str |-> ""]
Indef == [tipo |-> "undefined", num |-> 0, str |-> ""]

\* ToBoolean
EsVerdadero(v) ==
    CASE v.tipo = "number" -> v.num # 0
      [] v.tipo = "string" -> v.str # ""
      [] OTHER -> FALSE

\* ToString, as string concatenation applies it
ComoTexto(v) ==
    CASE v.tipo = "number" -> ToString(v.num)
      [] v.tipo = "string" -> v.str
      [] v.tipo = "nan" -> "NaN"
      [] OTHER -> "undefined"

\* the numeric strings of the model and the numbers they denote
TextosNumericos == {<<"22700", 22700>>, <<"500", 500>>}

\* parseFloat, and ToNumber on the values of the model
parseFloat(v) ==
    CASE v.tipo = "number" -> v
      [] v.tipo = "string" /\ \E par \in TextosNumericos : par[1] = v.str ->
            Num((CHOOSE par \in TextosNumericos : par[1] = v.str)[2])
      [] OTHER -> NaN

\* a * b
Producto(a, b) ==
    LET x == parseFloat(a)
        y == parseFloat(b)
    IN  IF x.tipo = "number" /\ y.tipo = "number" THEN Num(x.num * y.num) ELSE NaN

\* the digits of a group of thousands after the first
TresDigitos(n) ==
    IF n < 10 THEN "00" \o ToString(n)
    ELSE IF n < 100 THEN "0" \o ToString(n)
    ELSE ToString(n)

\* toLocaleString without the grouping of the digits
toLocaleStringSinGrupos(n) == ToString(n)

\* Number.prototype.toLocaleString('es-CL') on a non-negative integer
RECURSIVE toLocaleString(_)
toLocaleString(n) ==
    IF n < 1000 THEN ToString(n)
    ELSE toLocaleString(n \div 1000) \o "." \o TresDigitos(n % 1000)

\* formatearPrecio
formatearPrecio(precio) ==
    LET leido == parseFloat(precio)
        precioNumerico == IF leido.tipo = "number" THEN leido.num ELSE 0
    IN  IF precioNumerico < 0
        THEN "$-" \o toLocaleString(0 - precioNumerico)
        ELSE "$" \o toLocaleString(precioNumerico)

\* formatearFechaHora, in the es-CL locale and the zone the fechas are local to
formatearFechaHora(fechaISO) ==
    CASE fechaISO \in {Undefined, Null, ""} -> [fecha |-> "Sin fecha", hora |-> ""]
      [] fechaISO = FechaTemprana -> [fecha |-> "01-05-2024", hora |-> "12:00"]
      [] fechaISO \in {FechaTardia, FechaTardiaMs} ->
            [fecha |-> "02-05-2024", hora |-> "12:00"]
      [] OTHER -> [fecha |-> "Invalid Date", hora |-> "Invalid Date"]

\* LineasExtras with the extras printed last to first
RECURSIVE LineasExtrasInvertidas(_)
LineasExtrasInvertidas(extras) ==
    IF extras = <<>> THEN <<>>
    ELSE LineasExtrasInvertidas(Tail(extras))
         \o <<"    + " \o extras[1].nombre \o " (" \o formatearPrecio(extras[1].precio) \o ")">>

\* the lines generarTicket pushes for the extras of an item
RECURSIVE LineasExtras(_)
LineasExtras(extras) ==
    IF extras = <<>> THEN <<>>
    ELSE <<"    + " \o extras[1].nombre \o " (" \o formatearPrecio(extras[1].precio) \o ")">>
         \o LineasExtras(Tail(extras))

\* LineasItem without the size name on the item line
LineasItemSinTamanio(item) ==
    <<ComoTexto(item.cantidad) \o "x " \o item.nombre>>
    \o (IF item.extras.presente /\ Len(item.extras.lista) > 0
        THEN LineasExtras(item.extras.lista)
        ELSE <<>>)
    \o (IF EsVerdadero(item.notas) THEN <<"    Notas: " \o item.notas.str>> ELSE <<>>)
    \o <<"    Precio: " \o formatearPrecio(Producto(item.precio_unitario, item.cantidad)),
         "">>

\* the lines generarTicket pushes for one item
LineasItem(item) ==
    <<ComoTexto(item.cantidad) \o "x " \o item.nombre
        \o (IF EsVerdadero(item.tamanio) THEN " (" \o item.tamanio.str \o ")" ELSE "")>>
    \o (IF item.extras.presente /\ Len(item.extras.lista) > 0
        THEN LineasExtras(item.extras.lista)
        ELSE <<>>)
    \o (IF EsVerdadero(item.notas) THEN <<"    Notas: " \o item.notas.str>> ELSE <<>>)
    \o <<"    Precio: " \o formatearPrecio(Producto(item.precio_unitario, item.cantidad)),
         "">>

RECURSIVE LineasItems(_)
LineasItems(items) ==
    IF items = <<>> THEN <<>>
    ELSE LineasItem(items[1]) \o LineasItems(Tail(items))

\* an array element as Array.prototype.join prints it
Elemento(v) == IF v.tipo = "undefined" THEN "" ELSE ComoTexto(v)

\* the lines generarTicket starts with
LineasEncabezado(orden) ==
    LET fechaHora == formatearFechaHora(orden.fecha)
    IN  <<"========================================",
          "        PIZZERÍA LA FORNACE",
          "        TICKET DE COCINA",
          "========================================",
          "",
          "Orden #: " \o ToString(orden.id),
          "Fecha: " \o fechaHora.fecha,
          "Hora: " \o fechaHora.hora,
          "",
          "----------------------------------------",
          "ITEMS DEL PEDIDO:",
          "----------------------------------------",
          "">>

\* the lines of the delivery address
LineasDireccion(orden) ==
    <<"----------------------------------------",
      "DIRECCIÓN DE ENTREGA:",
      "----------------------------------------",
      Elemento(orden.direccion),
      "Tel: " \o ComoTexto(orden.telefono),
      "">>

\* LineasOpcionales with an empty line in the place of an absent block
LineasOpcionalesConHueco(orden) ==
    (IF EsVerdadero(orden.instrucciones_especiales)
     THEN <<"INSTRUCCIONES ESPECIALES:", orden.instrucciones_especiales.str, "">>
     ELSE <<"">>)
    \o (IF EsVerdadero(orden.eta_minutos)
        THEN <<"ETA: " \o ComoTexto(orden.eta_minutos) \o " minutos", "">>
        ELSE <<"">>)

\* the lines of the special instructions and of the ETA
LineasOpcionales(orden) ==
    (IF EsVerdadero(orden.instrucciones_especiales)
     THEN <<"INSTRUCCIONES ESPECIALES:", orden.instrucciones_especiales.str, "">>
     ELSE <<>>)
    \o (IF EsVerdadero(orden.eta_minutos)
        THEN <<"ETA: " \o ComoTexto(orden.eta_minutos) \o " minutos", "">>
        ELSE <<>>)

\* orden.descuento > 0
DescuentoPositivo(orden) ==
    LET d == parseFloat(orden.descuento) IN d.tipo = "number" /\ d.num > 0

\* LineasTotales with the DESCUENTO line printed for every numeric descuento
LineasTotalesDescuentoSiempre(orden) ==
    <<"----------------------------------------",
      "SUBTOTAL: " \o formatearPrecio(orden.subtotal),
      "ENVÍO: " \o formatearPrecio(orden.costo_envio),
      "IVA: " \o formatearPrecio(orden.impuestos)>>
    \o (IF parseFloat(orden.descuento).tipo = "number"
        THEN <<"DESCUENTO: -" \o formatearPrecio(orden.descuento)>>
        ELSE <<>>)
    \o <<"----------------------------------------",
         "TOTAL: " \o formatearPrecio(orden.total),
         "----------------------------------------">>

\* the lines of the totals
LineasTotales(orden) ==
    <<"----------------------------------------",
      "SUBTOTAL: " \o formatearPrecio(orden.subtotal),
      "ENVÍO: " \o formatearPrecio(orden.costo_envio),
      "IVA: " \o formatearPrecio(orden.impuestos)>>
    \o (IF DescuentoPositivo(orden)
        THEN <<"DESCUENTO: -" \o formatearPrecio(orden.descuento)>>
        ELSE <<>>)
    \o <<"----------------------------------------",
         "TOTAL: " \o formatearPrecio(orden.total),
         "----------------------------------------">>

\* the lines generarTicket ends with
LineasPie(orden) ==
    <<"",
      "Estado: " \o obtenerInfoEstadoCocina(orden.estado).texto,
      "Método de pago: "
         \o (IF EsVerdadero(orden.metodo_pago)
             THEN ComoTexto(orden.metodo_pago)
             ELSE "No especificado"),
      "",
      "========================================">>

\* the items generarTicket iterates over
ItemsDe(orden) ==
    IF orden.items_json.presente THEN orden.items_json.items ELSE <<>>

----------------------------------------------------------------------------
(* State of the page *)

VARIABLES
    token,              \* localStorage 'access_token', Null when absent
    pagina,             \* "cargando", "activa", or the last value assigned to
                        \* window.location.href
    listeners,          \* the filtroEstado change listeners are installed
    ordenesActuales,    \* the in-memory order list
    filtroActual,       \* the selected filter
    contenedor,         \* innerHTML of #ordenes-container
    contenedorDisplay,  \* style.display of #ordenes-container
    vacioDisplay,       \* style.display of #ordenes-vacias
    mensajeContainer,   \* the alert in #mensaje-container
    alertaTimer,        \* some auto-hide timeout of mostrarExito is pending
    enVuelo,            \* requests awaiting their response, in issue order
    ordenSeleccionada,  \* <<>> for null, or <<orden>>
    ticketContenido,    \* textContent of #ticket-contenido, as its lines
    impreso,            \* <<>>, or <<the document written to the print window>>
    ultimaCarga,        \* history: how the last settled GET /pedidos ended:
                        \* "fallo", "ok" (an array) or "sin_lista" (no array)
    rezagadas           \* history: how many of the oldest pending requests were
                        \* issued before a GET /pedidos that is already answered

vars == <<token, pagina, listeners, ordenesActuales, filtroActual, contenedor,
          contenedorDisplay, vacioDisplay, mensajeContainer, alertaTimer, enVuelo,
          ordenSeleccionada, ticketContenido, impreso, ultimaCarga, rezagadas>>

dom == <<contenedor, contenedorDisplay, vacioDisplay>>
mensajes == <<mensajeContainer, alertaTimer>>
ticket == <<ordenSeleccionada, ticketContenido, impreso>>
historia == <<ultimaCarga, rezagadas>>

\* a pending request and the handler that awaits it
Peticion(metodo, endpoint, origen, ordenId, nuevoEstado) ==
    [metodo |-> metodo, endpoint |-> endpoint, origen |-> origen,
     ordenId |-> ordenId, nuevoEstado |-> nuevoEstado]

Quitar(s, i) == SubSeq(s, 1, i - 1) \o SubSeq(s, i + 1, Len(s))

\* rezagadas once the request at position i has left enVuelo
SinPeticion(i) == IF i <= rezagadas THEN rezagadas - 1 ELSE rezagadas

\* the pages the panel redirects to
PaginaLogin == "../tu-cuenta/login.html"
PaginaIndex == "../index.html"

\* alerts of #mensaje-container
SinAlerta == [tipo |-> "nada", texto |-> "", ordenId |-> 0, detalle |-> ""]
Alerta(tipo, texto, ordenId, detalle) ==
    [tipo |-> tipo, texto |-> texto, ordenId |-> ordenId, detalle |-> detalle]

\* mostrarExito: the alert, and its auto-hide timeout
mostrarExito(alerta) ==
    /\ mensajeContainer' = alerta
    /\ alertaTimer' = TRUE

\* mostrarError: the alert stays until replaced or auto-hidden by an older timeout
mostrarError(alerta) ==
    /\ mensajeContainer' = alerta
    /\ UNCHANGED alertaTimer

\* what localStorage keeps for a value handed to setItem
TextoUndefined == "'undefined'"
setToken(valor) == IF valor = Undefined THEN TextoUndefined ELSE valor

\* ApiClient.isAuthenticated
isAuthenticated == Truthy(token)

\* the order cards the user can see
Visibles ==
    IF contenedorDisplay # "none" /\ contenedor.tipo = "tarjetas"
    THEN contenedor.tarjetas
    ELSE <<>>

Init ==
    /\ token \in {Null, "jwt"}
    /\ pagina = "cargando"
    /\ listeners = FALSE
    /\ ordenesActuales = <<>>
    /\ filtroActual = "todos"
    /\ contenedor = Inicial
    /\ contenedorDisplay = ""
    /\ vacioDisplay = "none"
    /\ mensajeContainer = SinAlerta
    /\ alertaTimer = FALSE
    /\ enVuelo = <<>>
    /\ ordenSeleccionada = <<>>
    /\ ticketContenido = <<>>
    /\ impreso = <<>>
    /\ ultimaCarga = "ninguna"
    /\ rezagadas = 0

----------------------------------------------------------------------------
(* What the order store may answer *)

RolesModelo == {"admin", "administrador", "cocinero", "cliente"}
RolesCocina == {"admin", "administrador", "cocinero"}

ErrorServidor == Respuesta(500, Objeto(Undefined, "Error interno del servidor", Undefined))
NoAutorizado == Respuesta(401, Objeto(Undefined, "No autenticado", Undefined))
Fallos == {FetchRechazado, ErrorServidor}

RespuestasMe ==
    Fallos \cup {NoAutorizado}
    \cup {Respuesta(200, Objeto(rol, Undefined, Undefined)) : rol \in RolesModelo}

\* GET /pedidos: failures, a 401, a body that is no array, or one of `listas`
RespuestasPedidos(listas) ==
    Fallos \cup {NoAutorizado}
    \cup {Respuesta(200, Objeto(Undefined, Undefined, Undefined)),
          Respuesta(200, ValorNull)}
    \cup {Respuesta(200, Arreglo(l)) : l \in listas}

\* POST /auth/login: failures, rejected credentials, a body without a token,
\* or a token
RespuestasLogin ==
    Fallos \cup {NoAutorizado, Respuesta(200, ValorNull)}
    \cup {Respuesta(200, Credencial(t)) : t \in {"jwt2", "", Undefined}}

RespuestasPatch ==
    Fallos \cup {NoAutorizado}
    \cup {Respuesta(200, Objeto(Undefined, Undefined, "Estado actualizado"))}

----------------------------------------------------------------------------
(* Handlers *)

\* cargarOrdenes up to its await: the spinner, and the GET for `origen`'s handler
cargarOrdenes(origen, pendientes) ==
    /\ contenedor' = Spinner
    /\ enVuelo' = Append(pendientes, Peticion("GET", "/pedidos", origen, 0, ""))
    /\ UNCHANGED <<contenedorDisplay, vacioDisplay>>

\* ApiClient.logout when request() ran it
Logout(r) ==
    IF r.logout
    THEN token' = Null /\ pagina' = PaginaLogin
    ELSE UNCHANGED <<token, pagina>>

\* the DOMContentLoaded handler up to its first await
DOMContentLoaded ==
    /\ pagina = "cargando"
    /\ IF ~isAuthenticated
       THEN /\ pagina' = PaginaLogin
            /\ UNCHANGED enVuelo
       ELSE /\ pagina' = "activa"
            /\ enVuelo' = Append(enVuelo, Peticion("GET", "/auth/me", "inicio", 0, ""))
    /\ UNCHANGED <<token, listeners, ordenesActuales, filtroActual, dom, mensajes>>
    /\ UNCHANGED <<ticket, historia>>

\* the DOMContentLoaded handler from the answer to GET /auth/me on
ResolverMe(i, resp) ==
    /\ pagina = "activa"
    /\ i \in 1..Len(enVuelo)
    /\ enVuelo[i].endpoint = "/auth/me"
    /\ LET r == request("/auth/me", resp)
           user == r.valor
       IN  IF r.lanza
           THEN /\ pagina' = PaginaLogin
                /\ enVuelo' = Quitar(enVuelo, i)
                /\ UNCHANGED <<token, dom>>
           ELSE IF user.tipo = "null" \/ user.rol \notin RolesCocina
           THEN /\ pagina' = PaginaIndex
                /\ token' = IF r.logout THEN Null ELSE token
                /\ enVuelo' = Quitar(enVuelo, i)
                /\ UNCHANGED dom
           ELSE /\ cargarOrdenes("inicio", Quitar(enVuelo, i))
                /\ UNCHANGED <<token, pagina>>
    /\ UNCHANGED <<listeners, ordenesActuales, filtroActual, mensajes>>
    /\ UNCHANGED <<ticket, ultimaCarga>>
    /\ rezagadas' = SinPeticion(i)

\* actualizarOrdenes up to the await inside cargarOrdenes
actualizarOrdenes(limite) ==
    /\ pagina = "activa"
    /\ Len(enVuelo) < limite
    /\ cargarOrdenes("actualizar", enVuelo)
    /\ UNCHANGED <<token, pagina, listeners, ordenesActuales, filtroActual, mensajes>>
    /\ UNCHANGED <<ticket, historia>>

\* LanzaCarga with a body that is no array taken for a failure
LanzaCargaSinArreglo(r) == r.lanza \/ r.valor.tipo # "array"

\* the try block of cargarOrdenes ends in its catch
LanzaCarga(r) == r.lanza

\* cargarOrdenes from the answer to GET /pedidos on, and then the rest of
\* the handler that awaited it
ResolverPedidos(i, resp) ==
    /\ pagina = "activa"
    /\ i \in 1..Len(enVuelo)
    /\ enVuelo[i].endpoint = "/pedidos"
    /\ LET r == request("/pedidos", resp)
           origen == enVuelo[i].origen
       IN  /\ IF LanzaCarga(r)
              THEN /\ contenedor' = PanelError(r.mensaje)
                   /\ UNCHANGED <<ordenesActuales, contenedorDisplay, vacioDisplay>>
              ELSE /\ ordenesActuales' =
                        IF r.valor.tipo = "array" THEN r.valor.elementos ELSE <<>>
                   /\ \E d \in renderizarOrdenes(ordenesActuales', filtroActual, contenedor) :
                        /\ contenedor' = d.contenedor
                        /\ contenedorDisplay' = d.contenedorDisplay
                        /\ vacioDisplay' = d.vacioDisplay
           /\ Logout(r)
           /\ listeners' = (listeners \/ origen = "inicio")
           /\ IF origen = "actualizar"
              THEN mostrarExito(Alerta("exito", "Órdenes actualizadas", 0, ""))
              ELSE UNCHANGED mensajes
    /\ enVuelo' = Quitar(enVuelo, i)
    /\ UNCHANGED filtroActual
    /\ ultimaCarga' = IF LanzaCarga(request("/pedidos", resp)) THEN "fallo"
                      ELSE IF request("/pedidos", resp).valor.tipo = "array" THEN "ok"
                      ELSE "sin_lista"
    /\ rezagadas' = IF LanzaCarga(request("/pedidos", resp)) \/ i <= rezagadas
                    THEN SinPeticion(i)
                    ELSE i - 1
    /\ UNCHANGED ticket

\* CambioFiltro with the list held replaced by the filtered and sorted one
CambioFiltroEnSitio(valor) ==
    /\ pagina = "activa"
    /\ listeners
    /\ valor # filtroActual
    /\ filtroActual' = valor
    /\ \E ordenadas \in Ordenar(Filtrar(ordenesActuales, valor)) :
         /\ ordenesActuales' = ordenadas
         /\ \E d \in renderizarOrdenes(ordenadas, valor, contenedor) :
              /\ contenedor' = d.contenedor
              /\ contenedorDisplay' = d.contenedorDisplay
              /\ vacioDisplay' = d.vacioDisplay
    /\ UNCHANGED <<token, pagina, listeners, mensajes, enVuelo>>
    /\ UNCHANGED <<ticket, historia>>

\* the change listener of the filtroEstado radios
CambioFiltro(valor) ==
    /\ pagina = "activa"
    /\ listeners
    /\ valor # filtroActual
    /\ filtroActual' = valor
    /\ \E d \in renderizarOrdenes(ordenesActuales, valor, contenedor) :
         /\ contenedor' = d.contenedor
         /\ contenedorDisplay' = d.contenedorDisplay
         /\ vacioDisplay' = d.vacioDisplay
    /\ UNCHANGED <<token, pagina, listeners, ordenesActuales, mensajes, enVuelo>>
    /\ UNCHANGED <<ticket, historia>>

\* cambiarEstadoOrden up to its await, called by button b of visible card t
cambiarEstadoOrden(t, b, limite) ==
    /\ pagina = "activa"
    /\ Len(enVuelo) < limite
    /\ t \in 1..Len(Visibles)
    /\ b \in 1..Len(Visibles[t].botones)
    /\ enVuelo' = Append(enVuelo,
            Peticion("PATCH", "/pedidos/estado", "cambiar",
                     Visibles[t].orden.id, Visibles[t].botones[b].nuevoEstado))
    /\ UNCHANGED <<token, pagina, listeners, ordenesActuales, filtroActual, dom, mensajes>>
    /\ UNCHANGED <<ticket, historia>>

\* ResolverPatch patching the order in the list instead of reloading it
ResolverPatchLocal(i, resp) ==
    /\ pagina = "activa"
    /\ i \in 1..Len(enVuelo)
    /\ enVuelo[i].metodo = "PATCH"
    /\ LET r == request("/pedidos/estado", resp)
           p == enVuelo[i]
       IN  /\ IF r.lanza
              THEN /\ mostrarError(Alerta("error", "Error al actualizar orden: ", 0, r.mensaje))
                   /\ UNCHANGED <<ordenesActuales, dom>>
              ELSE /\ mostrarExito(Alerta("exito", "Orden actualizada a: ", p.ordenId,
                                          obtenerInfoEstadoCocina(p.nuevoEstado).texto))
                   /\ ordenesActuales' =
                        [k \in 1..Len(ordenesActuales) |->
                            IF ordenesActuales[k].id = p.ordenId
                            THEN [ordenesActuales[k] EXCEPT !.estado = p.nuevoEstado]
                            ELSE ordenesActuales[k]]
                   /\ \E d \in renderizarOrdenes(ordenesActuales', filtroActual, contenedor) :
                        /\ contenedor' = d.contenedor
                        /\ contenedorDisplay' = d.contenedorDisplay
                        /\ vacioDisplay' = d.vacioDisplay
           /\ enVuelo' = Quitar(enVuelo, i)
           /\ Logout(r)
    /\ UNCHANGED <<listeners, filtroActual>>
    /\ UNCHANGED <<ticket, ultimaCarga>>
    /\ rezagadas' = SinPeticion(i)

\* ResolverPatch reloading the list whether or not the PATCH went through
ResolverPatchRecarga(i, resp) ==
    /\ pagina = "activa"
    /\ i \in 1..Len(enVuelo)
    /\ enVuelo[i].metodo = "PATCH"
    /\ LET r == request("/pedidos/estado", resp)
           p == enVuelo[i]
       IN  /\ IF r.lanza
              THEN mostrarError(Alerta("error", "Error al actualizar orden: ", 0, r.mensaje))
              ELSE mostrarExito(Alerta("exito", "Orden actualizada a: ", p.ordenId,
                                       obtenerInfoEstadoCocina(p.nuevoEstado).texto))
           /\ cargarOrdenes("cambiar", Quitar(enVuelo, i))
           /\ Logout(r)
    /\ UNCHANGED <<listeners, ordenesActuales, filtroActual>>
    /\ UNCHANGED <<ticket, ultimaCarga>>
    /\ rezagadas' = SinPeticion(i)

\* cambiarEstadoOrden from the answer to its PATCH on
ResolverPatch(i, resp) ==
    /\ pagina = "activa"
    /\ i \in 1..Len(enVuelo)
    /\ enVuelo[i].metodo = "PATCH"
    /\ LET r == request("/pedidos/estado", resp)
           p == enVuelo[i]
       IN  /\ IF r.lanza
              THEN /\ mostrarError(Alerta("error", "Error al actualizar orden: ", 0, r.mensaje))
                   /\ enVuelo' = Quitar(enVuelo, i)
                   /\ UNCHANGED dom
              ELSE /\ mostrarExito(Alerta("exito", "Orden actualizada a: ", p.ordenId,
                                          obtenerInfoEstadoCocina(p.nuevoEstado).texto))
                   /\ cargarOrdenes("cambiar", Quitar(enVuelo, i))
           /\ Logout(r)
    /\ UNCHANGED <<listeners, ordenesActuales, filtroActual>>
    /\ UNCHANGED <<ticket, ultimaCarga>>
    /\ rezagadas' = SinPeticion(i)

\* the auto-hide timeout of an earlier mostrarExito fires
AutoOcultar ==
    /\ pagina = "activa"
    /\ alertaTimer
    /\ mensajeContainer' = SinAlerta
    /\ alertaTimer' \in BOOLEAN
    /\ UNCHANGED <<token, pagina, listeners, ordenesActuales, filtroActual, dom, enVuelo>>
    /\ UNCHANGED <<ticket, historia>>

\* generarTicket with the filter in force printed in the place of the estado
generarTicketConFiltro(orden) ==
    LineasEncabezado(orden)
    \o LineasItems(ItemsDe(orden))
    \o LineasDireccion(orden)
    \o LineasOpcionales(orden)
    \o LineasTotales(orden)
    \o LineasPie([orden EXCEPT !.estado = filtroActual])

\* generarTicket: the lines it joins with '\n'
generarTicket(orden) ==
    LineasEncabezado(orden)
    \o LineasItems(ItemsDe(orden))
    \o LineasDireccion(orden)
    \o LineasOpcionales(orden)
    \o LineasTotales(orden)
    \o LineasPie(orden)

\* verTicket: the order of the list with that id becomes the selected one and
\* its ticket the content of the modal
verTicket(ordenId) ==
    /\ pagina = "activa"
    /\ LET hallada == SelectSeq(ordenesActuales, LAMBDA o : o.id = ordenId)
       IN  IF hallada = <<>>
           THEN /\ ordenSeleccionada' = <<>>
                /\ UNCHANGED ticketContenido
           ELSE /\ ordenSeleccionada' = <<hallada[1]>>
                /\ ticketContenido' = generarTicket(hallada[1])
    /\ UNCHANGED <<token, pagina, listeners, ordenesActuales, filtroActual, dom,
                   mensajes, enVuelo, historia, impreso>>

\* imprimirTicket with the selection dropped once the ticket is printed
imprimirTicketLimpia(abre) ==
    /\ pagina = "activa"
    /\ IF ordenSeleccionada # <<>> /\ abre
       THEN /\ impreso' = <<[titulo |-> ordenSeleccionada[1].id,
                             contenido |-> generarTicket(ordenSeleccionada[1])]>>
            /\ mostrarExito(Alerta("exito", "Ticket enviado a impresora", 0, ""))
            /\ ordenSeleccionada' = <<>>
       ELSE UNCHANGED <<impreso, mensajes, ordenSeleccionada>>
    /\ UNCHANGED <<token, pagina, listeners, ordenesActuales, filtroActual, dom,
                   enVuelo, historia, ticketContenido>>

\* imprimirTicket; `abre` tells whether window.open returned a window, without
\* which writing the document throws
imprimirTicket(abre) ==
    /\ pagina = "activa"
    /\ IF ordenSeleccionada # <<>> /\ abre
       THEN /\ impreso' = <<[titulo |-> ordenSeleccionada[1].id,
                             contenido |-> generarTicket(ordenSeleccionada[1])]>>
            /\ mostrarExito(Alerta("exito", "Ticket enviado a impresora", 0, ""))
       ELSE UNCHANGED <<impreso, mensajes>>
    /\ UNCHANGED <<token, pagina, listeners, ordenesActuales, filtroActual, dom,
                   enVuelo, historia, ordenSeleccionada, ticketContenido>>

\* ApiClient.logout called from the page
logout ==
    /\ pagina = "activa"
    /\ token' = Null
    /\ pagina' = PaginaLogin
    /\ UNCHANGED <<listeners, ordenesActuales, filtroActual, dom, mensajes, enVuelo,
                   ticket, historia>>

\* ApiClient.login up to its await, on the login page; the requests of the
\* page left behind are gone
login ==
    /\ pagina = PaginaLogin
    /\ \A k \in 1..Len(enVuelo) : enVuelo[k].endpoint # "/auth/login"
    /\ enVuelo' = <<Peticion("POST", "/auth/login", "login", 0, "")>>
    /\ rezagadas' = 0
    /\ UNCHANGED <<token, pagina, listeners, ordenesActuales, filtroActual, dom,
                   mensajes, ticket, ultimaCarga>>

\* ApiClient.login from the answer to POST /auth/login on
ResolverLogin(i, resp) ==
    /\ pagina = PaginaLogin
    /\ i \in 1..Len(enVuelo)
    /\ enVuelo[i].endpoint = "/auth/login"
    /\ LET r == request("/auth/login", resp)
       IN  /\ IF r.lanza
              THEN token' = token
              ELSE IF r.valor.tipo = "null"
              THEN token' = IF r.logout THEN Null ELSE token
              ELSE token' = setToken(r.valor.access_token)
           /\ pagina' = IF r.logout THEN PaginaLogin ELSE pagina
    /\ enVuelo' = Quitar(enVuelo, i)
    /\ rezagadas' = SinPeticion(i)
    /\ UNCHANGED <<listeners, ordenesActuales, filtroActual, dom, mensajes, ticket,
                   ultimaCarga>>

\* the panel's page is loaded anew: its script starts over, the requests of
\* the page left behind are gone, localStorage stays
CargarPagina ==
    /\ pagina' = "cargando"
    /\ listeners' = FALSE
    /\ ordenesActuales' = <<>>
    /\ filtroActual' = "todos"
    /\ contenedor' = Inicial
    /\ contenedorDisplay' = ""
    /\ vacioDisplay' = "none"
    /\ mensajeContainer' = SinAlerta
    /\ alertaTimer' = FALSE
    /\ enVuelo' = <<>>
    /\ ordenSeleccionada' = <<>>
    /\ ticketContenido' = <<>>
    /\ impreso' = <<>>
    /\ ultimaCarga' = "ninguna"
    /\ rezagadas' = 0

\* the user opens the panel again from the page a redirect led to
AbrirPanel ==
    /\ pagina \in {PaginaLogin, PaginaIndex}
    /\ CargarPagina
    /\ UNCHANGED token

\* limpiarDatosAplicacion of the shared scripts: the stored token is removed
\* and the page reloaded
limpiarDatosAplicacion ==
    /\ pagina \in {"activa", PaginaLogin}
    /\ token' = Null
    /\ IF pagina = "activa"
       THEN CargarPagina
       ELSE /\ enVuelo' = <<>>
            /\ rezagadas' = 0
            /\ UNCHANGED <<pagina, listeners, ordenesActuales, filtroActual, dom,
                           mensajes, ticket, ultimaCarga>>

----------------------------------------------------------------------------
(* Specifications *)

Orden(id, estado, fecha) == [id |-> id, estado |-> estado, fecha |-> fecha]

\* the order lists of at most n orders with ids 1, 2, ... whose estado and
\* fecha are drawn from combos
Listas(combos, n) ==
    UNION {{[i \in 1..k |-> Orden(i, c[i][1], c[i][2])] : c \in [1..k -> combos]} :
           k \in 0..n}

\* values of the filtroEstado radios
Filtros == {"todos"} \cup EstadosConocidos

\* Spec: the panel with overlapping requests, over lists of few orders in three
\* estados and two filter values
EstadosPanel == {"pendiente", "en_camino", "entregado"}
FiltrosPanel == {"todos", "entregado"}
ListasPanel == Listas(EstadosPanel \X {FechaTemprana}, MaxLista)

Next ==
    \/ DOMContentLoaded
    \/ \E i \in 1..MaxEnVuelo, resp \in RespuestasMe : ResolverMe(i, resp)
    \/ actualizarOrdenes(MaxEnVuelo)
    \/ \E i \in 1..MaxEnVuelo, resp \in RespuestasPedidos(ListasPanel) :
         ResolverPedidos(i, resp)
    \/ \E valor \in FiltrosPanel : CambioFiltro(valor)
    \/ \E t \in 1..MaxLista, b \in 1..2 : cambiarEstadoOrden(t, b, MaxEnVuelo)
    \/ \E i \in 1..MaxEnVuelo, resp \in RespuestasPatch : ResolverPatch(i, resp)
    \/ AutoOcultar

Spec == Init /\ [][Next]_vars

\* SpecDatos: the page load and the filter changes that follow it, over lists
\* that mix every estado and lists that mix every fecha
ListasDatos ==
    Listas((Estados \X {FechaTemprana}) \cup {<<"pendiente", FechaTardia>>}, MaxMezcla)
    \cup Listas({"pendiente"} \X Fechas, MaxOrdenes)

NextDatos ==
    \/ DOMContentLoaded
    \/ \E resp \in RespuestasMe : ResolverMe(1, resp)
    \/ \E resp \in RespuestasPedidos(ListasDatos) : ResolverPedidos(1, resp)
    \/ \E valor \in Filtros : CambioFiltro(valor)

SpecDatos == Init /\ [][NextDatos]_vars

\* SpecTicket: the page load of a list of one order with the properties the
\* ticket prints, verTicket applied to it, and filter changes
ItemHawaiana ==
    [cantidad |-> Num(2), nombre |-> "Hawaiana", tamanio |-> Str("grande"),
     extras |-> [presente |-> FALSE, lista |-> <<>>], notas |-> Indef,
     precio_unitario |-> Num(19600)]
ItemNapolitana ==
    [cantidad |-> Num(1), nombre |-> "Napolitana", tamanio |-> Indef,
     extras |-> [presente |-> TRUE,
                 lista |-> <<[nombre |-> "Queso", precio |-> Num(1500)],
                             [nombre |-> "Aceitunas", precio |-> Str("500")]>>],
     notas |-> Str("Sin oregano"), precio_unitario |-> Str("22700")]
ItemMargarita ==
    [cantidad |-> Num(3), nombre |-> "Margarita", tamanio |-> Indef,
     extras |-> [presente |-> TRUE, lista |-> <<>>], notas |-> Indef,
     precio_unitario |-> Num(8000)]

ItemsModelo ==
    {[presente |-> FALSE, items |-> <<>>],
     [presente |-> TRUE, items |-> <<ItemMargarita>>],
     [presente |-> TRUE, items |-> <<ItemHawaiana>>],
     [presente |-> TRUE, items |-> <<ItemHawaiana, ItemNapolitana>>],
     [presente |-> TRUE, items |-> <<ItemNapolitana, ItemHawaiana>>]}

DescuentosModelo == {Indef, Num(0), Num(0 - 500), Num(500), Str("500")}
TotalesModelo ==
    {Num(44200), Num(19600), Num(0), Num(1005), Num(1234567), Str("22700"),
     Str("abc"), Indef}

OrdenTicket(estado, items_json, instrucciones, eta, descuento, total, metodo_pago) ==
    [id |-> 77, fecha |-> FechaTemprana, estado |-> estado, items_json |-> items_json,
     direccion |-> Str("Calle 1"), telefono |-> Str("+56912345678"),
     instrucciones_especiales |-> instrucciones, eta_minutos |-> eta,
     subtotal |-> Num(39200), costo_envio |-> Num(2000), impuestos |-> Num(3000),
     descuento |-> descuento, total |-> total, metodo_pago |-> metodo_pago]

\* orders in every estado, and pending orders with every mix of the optional
\* properties, the items, the descuento and the total
OrdenesTicket ==
    {OrdenTicket(estado, [presente |-> TRUE, items |-> <<ItemMargarita>>],
                 Indef, Indef, Indef, Num(44200), Indef) : estado \in Estados}
    \cup {OrdenTicket("pendiente", items_json, instrucciones, eta, descuento, total,
                      metodo_pago) :
            items_json \in ItemsModelo,
            instrucciones \in {Indef, Str("Tocar el timbre")},
            eta \in {Indef, Num(30)},
            descuento \in DescuentosModelo,
            total \in TotalesModelo,
            metodo_pago \in {Indef, Str("efectivo")}}

ListasTicket == {<<o>> : o \in OrdenesTicket}

NextTicket ==
    \/ DOMContentLoaded
    \/ \E resp \in RespuestasMe : ResolverMe(1, resp)
    \/ \E resp \in RespuestasPedidos(ListasTicket) : ResolverPedidos(1, resp)
    \/ \E ordenId \in {77} : verTicket(ordenId)
    \/ \E valor \in FiltrosPanel : CambioFiltro(valor)

SpecTicket == Init /\ [][NextTicket]_vars

\* SpecSeleccion: the panel with one request at a time, the ticket preview and
\* the printing, over lists of orders with everything the ticket prints
OrdenCompleta(id, estado, fecha) ==
    [OrdenTicket(estado, [presente |-> TRUE, items |-> <<ItemHawaiana>>],
                 Indef, Indef, Num(0), Num(44200), Indef)
        EXCEPT !.id = id, !.fecha = fecha]

ListasSeleccion ==
    {<<>>}
    \cup {<<OrdenCompleta(1, estado, FechaTemprana)>> : estado \in EstadosPanel}
    \cup {<<OrdenCompleta(1, "pendiente", FechaTemprana),
            OrdenCompleta(2, "pendiente", FechaTardia)>>}

NextSeleccion ==
    \/ DOMContentLoaded
    \/ \E resp \in RespuestasMe : ResolverMe(1, resp)
    \/ actualizarOrdenes(1)
    \/ \E resp \in RespuestasPedidos(ListasSeleccion) : ResolverPedidos(1, resp)
    \/ \E valor \in FiltrosPanel : CambioFiltro(valor)
    \/ \E t \in 1..2, b \in 1..2 : cambiarEstadoOrden(t, b, 1)
    \/ \E resp \in RespuestasPatch : ResolverPatch(1, resp)
    \/ \E ordenId \in 1..2 : verTicket(ordenId)
    \/ \E abre \in BOOLEAN : imprimirTicket(abre)

SpecSeleccion == Init /\ [][NextSeleccion]_vars

\* SpecSesion: the session over page loads, reloads of the list, logins and
\* logouts, one request at a time
NextSesion ==
    \/ DOMContentLoaded
    \/ \E resp \in RespuestasMe : ResolverMe(1, resp)
    \/ actualizarOrdenes(1)
    \/ \E resp \in RespuestasPedidos(ListasPanel) : ResolverPedidos(1, resp)
    \/ logout
    \/ login
    \/ \E resp \in RespuestasLogin : ResolverLogin(1, resp)
    \/ AbrirPanel
    \/ limpiarDatosAplicacion

SpecSesion == Init /\ [][NextSesion]_vars

----------------------------------------------------------------------------
(* Properties of the rendered list *)

\* the orders whose cards the user can see
Mostradas == {Visibles[i].orden : i \in 1..Len(Visibles)}

\* the orders of the in-memory list
Cargadas == {ordenesActuales[i] : i \in 1..Len(ordenesActuales)}

\* the DOM is as renderizarOrdenes left it: cards, or the empty state
Renderizado == contenedor.tipo = "tarjetas" \/ contenedorDisplay = "none"

\* where an order stands in the fetched list
Posicion(o) == CHOOSE k \in 1..Len(ordenesActuales) : ordenesActuales[k] = o

(* C1: with the filter 'todos' the orders on display are exactly the loaded   *)
(* orders whose estado is pendiente, confirmado, en_preparacion or en_camino; *)
(* no order in any other estado is ever on display under this filter.         *)
C1_TodosSoloActivos ==
    filtroActual = "todos" =>
        /\ \A o \in Mostradas :
             o.estado \in {"pendiente", "confirmado", "en_preparacion", "en_camino"}
        /\ Renderizado =>
             Mostradas = {o \in Cargadas :
                 o.estado \in {"pendiente", "confirmado", "en_preparacion", "en_camino"}}

\* under 'todos' an order is on display while a delivered order of the list
\* is held back
C1_Testigo ==
    /\ filtroActual = "todos"
    /\ Mostradas # {}
    /\ \E o \in Cargadas \ Mostradas : o.estado = "entregado"

(* C2: with any filter value other than 'todos' the orders on display are     *)
(* exactly the loaded orders whose estado equals the filter value, terminal   *)
(* estados included.                                                          *)
C2_FiltroExacto ==
    filtroActual # "todos" =>
        /\ \A o \in Mostradas : o.estado = filtroActual
        /\ Renderizado => Mostradas = {o \in Cargadas : o.estado = filtroActual}

\* delivered orders are on display under the filter 'entregado' while another
\* loaded order is held back
C2_Testigo ==
    /\ filtroActual = "entregado"
    /\ Mostradas # {}
    /\ Mostradas # Cargadas

(* C3: the orders on display are in descending order of fecha, and two orders *)
(* on display with equal fecha keep the relative order of the fetched list.   *)
C3_DescendenteEstable ==
    \A i, j \in 1..Len(Visibles) :
        LET a == Visibles[i].orden
            b == Visibles[j].orden
            fa == NuevaFecha(a.fecha)
            fb == NuevaFecha(b.fecha)
        IN  (i < j /\ ~fa.nan /\ ~fb.nan) =>
                /\ fa.valor >= fb.valor
                /\ fa.valor = fb.valor => Posicion(a) < Posicion(b)

(* C4 as stated: an order en_camino exposes two transition actions at once,   *)
(* a next-sequential one and 'Marcar Entregado'; a delivered order exposes    *)
(* none.                                                                      *)
C4_DosAcciones ==
    \A i \in 1..Len(Visibles) :
        /\ Visibles[i].orden.estado = "en_camino" =>
             /\ Len(Visibles[i].botones) = 2
             /\ \E b \in 1..2 : Visibles[i].botones[b].texto = "Marcar Entregado"
        /\ Visibles[i].orden.estado = "entregado" => Visibles[i].botones = <<>>

(* C4 amended: an order en_camino exposes exactly one transition action, the  *)
(* explicit 'Marcar Entregado' towards entregado, and no descriptor-driven    *)
(* one; a delivered order exposes no transition action.                       *)
C4_UnaAccion ==
    \A i \in 1..Len(Visibles) :
        /\ Visibles[i].orden.estado = "en_camino" =>
             Visibles[i].botones =
                 <<[texto |-> "Marcar Entregado", nuevoEstado |-> "entregado"]>>
        /\ Visibles[i].orden.estado = "entregado" => Visibles[i].botones = <<>>

\* an order in en_camino is on display with its single button
C4_Testigo ==
    \E i \in 1..Len(Visibles) :
        /\ Visibles[i].orden.estado = "en_camino"
        /\ Len(Visibles[i].botones) = 1

\* the chain successor of each non-terminal estado
Sucesor(estado) ==
    CASE estado = "pendiente" -> "confirmado"
      [] estado = "confirmado" -> "en_preparacion"
      [] estado = "en_preparacion" -> "en_camino"
      [] estado = "en_camino" -> "entregado"

\* the estados the buttons of an order in `estado` lead to
Ofrecidos(estado) ==
    LET botones == Botones(Orden(1, estado, FechaTemprana))
    IN  {botones[b].nuevoEstado : b \in 1..Len(botones)}

\* the estados visited from `estado` by pressing an offered button `pasos` times
\* at most
RECURSIVE Recorrido(_, _)
Recorrido(estado, pasos) ==
    IF pasos = 0 \/ Ofrecidos(estado) = {}
    THEN <<estado>>
    ELSE <<estado>> \o Recorrido(CHOOSE e \in Ofrecidos(estado) : TRUE, pasos - 1)

(* C5: every card of an order in a non-terminal estado offers exactly one     *)
(* transition, to the chain successor, and a card in entregado, anulado or    *)
(* cancelado offers none; following the offered actions from pendiente visits *)
(* confirmado, en_preparacion, en_camino and ends in entregado after four     *)
(* transitions.                                                               *)
C5_CadenaDeEstados ==
    /\ \A i \in 1..Len(Visibles) :
         LET estado == Visibles[i].orden.estado
             destinos == [b \in 1..Len(Visibles[i].botones) |->
                             Visibles[i].botones[b].nuevoEstado]
         IN  /\ estado \in {"pendiente", "confirmado", "en_preparacion", "en_camino"} =>
                  destinos = <<Sucesor(estado)>>
             /\ estado \in {"entregado", "anulado", "cancelado"} => destinos = <<>>
    /\ \A estado \in EstadosConocidos : Cardinality(Ofrecidos(estado)) <= 1
    /\ Recorrido("pendiente", Cardinality(EstadosConocidos)) =
         <<"pendiente", "confirmado", "en_preparacion", "en_camino", "entregado">>

\* two orders in consecutive estados of the chain are on display, each with
\* its single button
C5_Testigo ==
    \E i, j \in 1..Len(Visibles) :
        /\ Visibles[i].orden.estado = "confirmado"
        /\ Visibles[j].orden.estado = "en_preparacion"
        /\ Len(Visibles[i].botones) = 1
        /\ Len(Visibles[j].botones) = 1

----------------------------------------------------------------------------
(* Properties of the transitions and the reloads *)

\* the answers to a PATCH that the order store accepted
PatchAceptado == {resp \in RespuestasPatch : resp.llega /\ resp.status \in 200..299}

\* the answers with which request() throws, and the Error's message
RespuestasFallidas == {FetchRechazado, ErrorServidor}
MensajeDe(resp) ==
    IF resp = FetchRechazado THEN "Failed to fetch" ELSE "Error interno del servidor"

\* what the response body of a GET /pedidos puts in the in-memory list
ListaDe(resp) == IF resp.data.tipo = "array" THEN resp.data.elementos ELSE <<>>

(* C7: when the PATCH of cambiarEstadoOrden succeeds, the same step issues a  *)
(* GET /pedidos reload and leaves the in-memory list as it was; the list only *)
(* ever changes when a GET /pedidos is answered, and then to the answer.      *)
C7_RecargaTrasPatch ==
    [][/\ \A i \in 1..Len(enVuelo), resp \in PatchAceptado :
            ResolverPatch(i, resp) =>
                /\ enVuelo' = Append(Quitar(enVuelo, i),
                                     Peticion("GET", "/pedidos", "cambiar", 0, ""))
                /\ ordenesActuales' = ordenesActuales
       /\ ordenesActuales' # ordenesActuales =>
            \E i \in 1..Len(enVuelo) :
                /\ enVuelo[i].metodo = "GET"
                /\ enVuelo[i].endpoint = "/pedidos"
                /\ enVuelo' = Quitar(enVuelo, i)
                /\ \E resp \in RespuestasPedidos(ListasPanel) :
                     /\ resp.llega
                     /\ resp.status \in 200..299 \/ resp.status = 401
                     /\ ordenesActuales' = ListaDe(resp)]_vars

\* the reload of an accepted transition is pending, the success alert is up
\* and the list still holds the order in its old estado
C7_Testigo ==
    /\ \E i \in 1..Len(enVuelo) :
         enVuelo[i].endpoint = "/pedidos" /\ enVuelo[i].origen = "cambiar"
    /\ mensajeContainer.tipo = "exito"
    /\ mensajeContainer.detalle = "Entregado"
    /\ \E o \in Cargadas : o.id = mensajeContainer.ordenId /\ o.estado = "en_camino"

(* C8: when the PATCH of cambiarEstadoOrden fails, the step shows an error    *)
(* alert with the failure's message, issues no request, and leaves the list,  *)
(* the filter and the rendered container as they were.                        *)
C8_FalloSinRecarga ==
    [][\A i \in 1..Len(enVuelo), resp \in RespuestasFallidas :
            ResolverPatch(i, resp) =>
                /\ mensajeContainer'.tipo = "error"
                /\ mensajeContainer'.detalle = MensajeDe(resp)
                /\ enVuelo' = Quitar(enVuelo, i)
                /\ UNCHANGED <<ordenesActuales, filtroActual, contenedor,
                               contenedorDisplay, vacioDisplay>>]_vars

\* the error alert of a failed transition is up beside the cards, and no
\* request is pending
C8_Testigo ==
    /\ mensajeContainer.tipo = "error"
    /\ mensajeContainer.texto = "Error al actualizar orden: "
    /\ Mostradas # {}
    /\ enVuelo = <<>>

(* C9: after a GET /pedidos failure and until the next successful load, no    *)
(* order card is on display.                                                  *)
C9_SinTarjetasTrasFallo == ultimaCarga = "fallo" => Mostradas = {}

(* C10: every GET /pedidos failure leaves a visible error panel that carries  *)
(* the failure's message in the orders container.                             *)
C10_PanelDeErrorVisible ==
    [][\A i \in 1..Len(enVuelo), resp \in RespuestasFallidas :
            ResolverPedidos(i, resp) =>
                /\ contenedor'.tipo = "error"
                /\ contenedor'.mensaje = MensajeDe(resp)
                /\ contenedorDisplay' # "none"]_vars

----------------------------------------------------------------------------
(* Properties of the status descriptor on the ticket *)

(* C6: for an order whose estado is none of the seven known values the        *)
(* descriptor's texto is the estado itself, its style is the neutral one, it  *)
(* offers no button, and the ticket's 'Estado:' line shows the estado         *)
(* verbatim.                                                                  *)
C6_RespaldoVerbatim ==
    \A k \in 1..Len(ordenSeleccionada) :
        LET estado == ordenSeleccionada[k].estado
            info == obtenerInfoEstadoCocina(estado)
        IN  estado \notin {"pendiente", "confirmado", "en_preparacion", "en_camino",
                           "entregado", "anulado", "cancelado"} =>
                /\ info.texto = estado
                /\ info.clase = "bg-secondary"
                /\ info.colorBorder = "secondary"
                /\ info.mostrarBotonEstado = "false"
                /\ info.siguienteEstado = Undefined
                /\ \E n \in 1..Len(ticketContenido) :
                     ticketContenido[n] = "Estado: " \o estado

----------------------------------------------------------------------------
(* Properties of overlapping requests *)

(* C11: when reloads overlap, an order list that answers a reload issued      *)
(* before an already answered reload replaces neither the list held nor the   *)
(* cards on display, so that the list of the most recently issued reload      *)
(* stays.                                                                     *)
C11_RecargaRecienteGana ==
    [][\A i \in 1..Len(enVuelo), l \in ListasPanel :
            (i <= rezagadas /\ ResolverPedidos(i, Respuesta(200, Arreglo(l)))) =>
                /\ ordenesActuales' = ordenesActuales
                /\ Mostradas' = Mostradas]_vars

(* C12: no two PATCH requests for the same order are pending at the same      *)
(* time, so that an offered transition is not submitted twice before the list *)
(* is reloaded.                                                               *)
C12_UnPatchPorOrden ==
    \A i, j \in 1..Len(enVuelo) :
        (i # j /\ enVuelo[i].metodo = "PATCH" /\ enVuelo[j].metodo = "PATCH") =>
            enVuelo[i].ordenId # enVuelo[j].ordenId

----------------------------------------------------------------------------
(* Properties of the answers to GET /pedidos and of the page load *)

\* the 200 answers to GET /pedidos whose body is no array
SinArreglo == {Respuesta(200, Objeto(Undefined, Undefined, Undefined)),
               Respuesta(200, ValorNull)}

(* C13: a GET /pedidos answer whose body is not an array empties the list     *)
(* held and renders the empty state: the orders container is hidden, with it *)
(* any error panel, and the answer raises no error alert.                     *)
C13_SinArregloEsVacio ==
    [][\A i \in 1..Len(enVuelo), resp \in SinArreglo :
            ResolverPedidos(i, resp) =>
                /\ ordenesActuales' = <<>>
                /\ vacioDisplay' = "block"
                /\ contenedorDisplay' = "none"
                /\ Mostradas' = {}
                /\ mensajeContainer'.tipo = "error" =>
                     mensajeContainer' = mensajeContainer]_vars

\* the empty state is on display after an answer that was no array
C13_Testigo ==
    /\ ultimaCarga = "sin_lista"
    /\ pagina = "activa"
    /\ ordenesActuales = <<>>
    /\ vacioDisplay = "block"
    /\ contenedorDisplay = "none"

(* C14: when a request to an endpoint other than /auth/login is answered with *)
(* 401, request() returns null after logout() without throwing, the stored    *)
(* token is removed, the page is sent to the login page, and the answer       *)
(* raises neither the error panel nor an error alert.                         *)
C14_NoAutorizadoCierraSesion ==
    [][\A i \in 1..Len(enVuelo) :
            (\/ ResolverMe(i, NoAutorizado)
             \/ ResolverPedidos(i, NoAutorizado)
             \/ ResolverPatch(i, NoAutorizado)) =>
                /\ request(enVuelo[i].endpoint, NoAutorizado) = Retorna(ValorNull, TRUE)
                /\ token' = Null
                /\ pagina' = PaginaLogin
                /\ contenedor'.tipo = "error" => contenedor' = contenedor
                /\ mensajeContainer'.tipo = "error" =>
                     mensajeContainer' = mensajeContainer]_vars

\* the answers to GET /auth/me that carry a user of the kitchen or the
\* administration
MeAceptado ==
    {Respuesta(200, Objeto(rol, Undefined, Undefined)) :
        rol \in {"admin", "administrador", "cocinero"}}

\* the step issues a GET /pedidos
EmitePedidos ==
    /\ enVuelo' # enVuelo
    /\ Len(enVuelo') >= Len(enVuelo)
    /\ enVuelo'[Len(enVuelo')].endpoint = "/pedidos"

(* C15: a GET /pedidos is issued only with a token stored and once GET        *)
(* /auth/me has been answered with a user whose rol is admin, administrador   *)
(* or cocinero; without a token, and on every other answer to GET /auth/me,   *)
(* the page is redirected with no order list requested, held or on display.   *)
C15_CargaSoloAutorizada ==
    [][/\ EmitePedidos =>
            /\ Truthy(token)
            /\ \/ \E i \in 1..Len(enVuelo) : \E resp \in MeAceptado : ResolverMe(i, resp)
               \/ \A k \in 1..Len(enVuelo) : enVuelo[k].endpoint # "/auth/me"
       /\ (DOMContentLoaded /\ ~Truthy(token)) =>
            pagina' = PaginaLogin /\ enVuelo' = <<>>
       /\ \A i \in 1..Len(enVuelo), resp \in RespuestasMe \ MeAceptado :
            ResolverMe(i, resp) =>
                /\ pagina' \in {PaginaLogin, PaginaIndex}
                /\ \A k \in 1..Len(enVuelo') : enVuelo'[k].endpoint # "/pedidos"
                /\ ordenesActuales' = <<>>
                /\ Mostradas' = {}]_vars

----------------------------------------------------------------------------
(* Properties of the ticket *)

\* the lines of a ticket, as a set
Lineas(t) == {t[n] : n \in 1..Len(t)}

Separador == "----------------------------------------"

\* what a call of generarTicket on the selected order returns now
TicketDeSeleccionada ==
    IF ordenSeleccionada = <<>> THEN <<>> ELSE generarTicket(ordenSeleccionada[1])

\* the descuento values that are greater than 0
EsDescuentoPositivo(descuento) == descuento \in {Num(500), Str("500")}

\* the price texts expected for the totals of the orders
PrecioEsperado(total) ==
    CASE total = Num(44200) -> "$44.200"
      [] total = Num(19600) -> "$19.600"
      [] total = Num(0) -> "$0"
      [] total = Num(1005) -> "$1.005"
      [] total = Num(1234567) -> "$1.234.567"
      [] total = Str("22700") -> "$22.700"
      [] total = Str("abc") -> "$0"
      [] total = Indef -> "$0"

\* the block of lines expected for each item of the orders
BloqueEsperado(item) ==
    CASE item.nombre = "Hawaiana" ->
            <<"2x Hawaiana (grande)", "    Precio: $39.200", "">>
      [] item.nombre = "Napolitana" ->
            <<"1x Napolitana", "    + Queso ($1.500)", "    + Aceitunas ($500)",
              "    Notas: Sin oregano", "    Precio: $22.700", "">>
      [] item.nombre = "Margarita" ->
            <<"3x Margarita", "    Precio: $24.000", "">>

RECURSIVE BloquesEsperados(_)
BloquesEsperados(items) ==
    IF items = <<>> THEN <<>>
    ELSE BloqueEsperado(items[1]) \o BloquesEsperados(Tail(items))

(* C16: the ticket shown for the selected order equals what generarTicket     *)
(* returns for that order in every later state, whatever happened in between, *)
(* and the step that generates it leaves the order, the list held and the     *)
(* filter as they were, the selected order being the order found in the list. *)
C16_TicketPuro ==
    [][/\ ordenSeleccionada' # <<>> => ticketContenido' = TicketDeSeleccionada'
       /\ (verTicket(77) /\ ordenesActuales # <<>>) =>
            /\ ordenesActuales' = ordenesActuales
            /\ filtroActual' = filtroActual
            /\ ordenSeleccionada' = <<ordenesActuales[1]>>]_vars

\* a ticket is on display and the filter has been changed
C16_Testigo ==
    /\ ordenSeleccionada # <<>>
    /\ ticketContenido # <<>>
    /\ filtroActual = "entregado"

(* C17: the totals block is the separator, SUBTOTAL, ENVÍO and IVA in that    *)
(* order, then the line 'DESCUENTO: -' with the amount exactly when the       *)
(* descuento is greater than 0, then the separator and the TOTAL line with    *)
(* the order's own total, whatever its items add up to.                       *)
C17_BloqueDeTotales ==
    \A k \in 1..Len(ordenSeleccionada) :
        LET o == ordenSeleccionada[k]
            t == ticketContenido
            n == CHOOSE n \in 1..Len(t) : t[n] = "SUBTOTAL: $39.200"
            m == IF EsDescuentoPositivo(o.descuento) THEN n + 4 ELSE n + 3
        IN  /\ Cardinality({j \in 1..Len(t) : t[j] = "SUBTOTAL: $39.200"}) = 1
            /\ t[n - 1] = Separador
            /\ t[n + 1] = "ENVÍO: $2.000"
            /\ t[n + 2] = "IVA: $3.000"
            /\ EsDescuentoPositivo(o.descuento) => t[n + 3] = "DESCUENTO: -$500"
            /\ \A j \in 1..Len(t) :
                 t[j] \in {"DESCUENTO: -$500", "DESCUENTO: -$0", "DESCUENTO: -$-500"} =>
                    EsDescuentoPositivo(o.descuento) /\ j = n + 3
            /\ t[m] = Separador
            /\ t[m + 1] = "TOTAL: " \o PrecioEsperado(o.total)
            /\ t[m + 2] = Separador

\* the ticket of an order with a descuento of 500 whose total is not the sum
\* of its items is on display
C17_Testigo ==
    /\ ordenSeleccionada # <<>>
    /\ ordenSeleccionada[1].descuento = Num(500)
    /\ ordenSeleccionada[1].total = Num(44200)
    /\ ordenSeleccionada[1].items_json.items = <<ItemMargarita>>
    /\ "DESCUENTO: -$500" \in Lineas(ticketContenido)

(* C18: the ticket of an order is produced whichever of                       *)
(* instrucciones_especiales, eta_minutos, metodo_pago, items_json and the     *)
(* extras of its items are absent; an absent block adds no line at all, and   *)
(* an absent metodo_pago is printed as 'No especificado'.                     *)
C18_BloquesOpcionales ==
    \A k \in 1..Len(ordenSeleccionada) :
        LET o == ordenSeleccionada[k]
            t == ticketContenido
            deItems == IF ~o.items_json.presente THEN 0
                       ELSE IF Len(o.items_json.items) = 1 THEN 3 ELSE 9
            deInstrucciones == IF o.instrucciones_especiales = Indef THEN 0 ELSE 3
            deEta == IF o.eta_minutos = Indef THEN 0 ELSE 2
            deDescuento == IF EsDescuentoPositivo(o.descuento) THEN 1 ELSE 0
        IN  /\ t # <<>>
            /\ t[Len(t)] = "========================================"
            /\ Len(t) = 31 + deItems + deInstrucciones + deEta + deDescuento
            /\ o.instrucciones_especiales = Indef =>
                 "INSTRUCCIONES ESPECIALES:" \notin Lineas(t)
            /\ o.eta_minutos = Indef => "ETA: 30 minutos" \notin Lineas(t)
            /\ o.metodo_pago = Indef =>
                 t[Len(t) - 2] = "Método de pago: No especificado"
            /\ ~o.items_json.presente =>
                 t[14] = Separador /\ t[15] = "DIRECCIÓN DE ENTREGA:"

\* the ticket of an order without any of the optional properties is on display
C18_Testigo ==
    /\ ordenSeleccionada # <<>>
    /\ ordenSeleccionada[1].instrucciones_especiales = Indef
    /\ ordenSeleccionada[1].eta_minutos = Indef
    /\ ordenSeleccionada[1].metodo_pago = Indef
    /\ ~ordenSeleccionada[1].items_json.presente
    /\ Len(ticketContenido) = 31

(* C19: the lines after the header are the blocks of the items in the order   *)
(* received, each block being the item line (with the size name when there is *)
(* one), a '+' line per extra in the order received, the 'Notas:' line when   *)
(* there are notes, the 'Precio:' line with precio_unitario * cantidad, and a *)
(* blank line.                                                                *)
C19_ItemsEnOrden ==
    \A k \in 1..Len(ordenSeleccionada) :
        LET o == ordenSeleccionada[k]
            t == ticketContenido
            esperado == IF o.items_json.presente
                        THEN BloquesEsperados(o.items_json.items)
                        ELSE <<>>
        IN  /\ SubSeq(t, 14, 13 + Len(esperado)) = esperado
            /\ t[14 + Len(esperado)] = Separador
            /\ t[15 + Len(esperado)] = "DIRECCIÓN DE ENTREGA:"

\* the ticket of an order whose first item has two extras and notes, and
\* whose second item has neither, is on display
C19_Testigo ==
    /\ ordenSeleccionada # <<>>
    /\ ordenSeleccionada[1].items_json.items = <<ItemNapolitana, ItemHawaiana>>
    /\ ticketContenido[14] = "1x Napolitana"
    /\ ticketContenido[20] = "2x Hawaiana (grande)"

(* C20: formatearPrecio gives '$' and the digits of the amount grouped in     *)
(* threes with '.', for numbers and for numeric strings, and '$0' for an      *)
(* absent or non-numeric amount: 19600 gives '$19.600', 0 gives '$0' and      *)
(* '22700' gives '$22.700'.                                                   *)
C20_PrecioAgrupado ==
    /\ formatearPrecio(Num(19600)) = "$19.600"
    /\ formatearPrecio(Num(0)) = "$0"
    /\ formatearPrecio(Str("22700")) = "$22.700"
    /\ \A k \in 1..Len(ordenSeleccionada) :
         /\ formatearPrecio(ordenSeleccionada[k].total) =
                PrecioEsperado(ordenSeleccionada[k].total)
         /\ "TOTAL: " \o PrecioEsperado(ordenSeleccionada[k].total)
                \in Lineas(ticketContenido)

\* the ticket of an order whose total is the string '22700' is on display
C20_Testigo ==
    /\ ordenSeleccionada # <<>>
    /\ ordenSeleccionada[1].total = Str("22700")
    /\ "TOTAL: $22.700" \in Lineas(ticketContenido)

\* the order of the scenario: id 77, pendiente, two Hawaiana grande at 19600,
\* subtotal 39200, shipping 2000, tax 3000, discount 0, total 44200
OrdenEscenario ==
    OrdenTicket("pendiente", [presente |-> TRUE, items |-> <<ItemHawaiana>>],
                Indef, Indef, Num(0), Num(44200), Indef)

\* the DESCUENTO lines of the orders
LineasDescuento == {"DESCUENTO: -$500", "DESCUENTO: -$0", "DESCUENTO: -$-500"}

(* C21 as stated: the ticket of the scenario's order has the line             *)
(* '2x Hawaiana (grande)', the line 'Precio: $39.200', no DESCUENTO line, and *)
(* 'TOTAL: $44.200' as its last line.                                         *)
C21_TerminaEnTotal ==
    ordenSeleccionada = <<OrdenEscenario>> =>
        /\ "2x Hawaiana (grande)" \in Lineas(ticketContenido)
        /\ "    Precio: $39.200" \in Lineas(ticketContenido)
        /\ Lineas(ticketContenido) \cap LineasDescuento = {}
        /\ ticketContenido[Len(ticketContenido)] = "TOTAL: $44.200"

(* C21 amended: the ticket of the scenario's order has the line               *)
(* '2x Hawaiana (grande)', the indented line '    Precio: $39.200', no        *)
(* DESCUENTO line, and 'TOTAL: $44.200' as the last of its amounts, followed  *)
(* by the separator, a blank line, the Estado and Método de pago lines, a     *)
(* blank line and the closing rule.                                           *)
C21_TotalCierraImportes ==
    ordenSeleccionada = <<OrdenEscenario>> =>
        /\ "2x Hawaiana (grande)" \in Lineas(ticketContenido)
        /\ "    Precio: $39.200" \in Lineas(ticketContenido)
        /\ Lineas(ticketContenido) \cap LineasDescuento = {}
        /\ SubSeq(ticketContenido, Len(ticketContenido) - 6, Len(ticketContenido)) =
             <<"TOTAL: $44.200",
               "----------------------------------------",
               "",
               "Estado: Pendiente",
               "Método de pago: No especificado",
               "",
               "========================================">>

\* the ticket of the scenario's order is on display
C21_Testigo ==
    /\ ordenSeleccionada = <<OrdenEscenario>>
    /\ Len(ticketContenido) = 34


(* C22: imprimirTicket leaves ordenesActuales, filtroActual and               *)
(* ordenSeleccionada as they were and issues no request, whether or not the   *)
(* print window opens; with no order selected it changes nothing at all.      *)
C22_ImprimirNoTocaEstado ==
    [][\A abre \in BOOLEAN :
          imprimirTicket(abre) =>
              /\ UNCHANGED <<ordenesActuales, filtroActual, ordenSeleccionada,
                             enVuelo, token, pagina>>
              /\ ordenSeleccionada = <<>> => UNCHANGED vars]_vars

\* the ticket of the selected order has gone to the print window
C22_Testigo ==
    /\ ordenSeleccionada # <<>>
    /\ impreso # <<>>
    /\ impreso[1].titulo = ordenSeleccionada[1].id
    /\ mensajeContainer.texto = "Ticket enviado a impresora"

(* C23: ordenesActuales only ever changes in the step that resolves a         *)
(* GET /pedidos, and then to the answer (or to the empty list when the answer *)
(* is no array); a filter change with its render and sort, verTicket,         *)
(* imprimirTicket and cambiarEstadoOrden up to its reload leave it as it was. *)
C23_SoloCargarReemplaza ==
    [][/\ ordenesActuales' # ordenesActuales =>
            \E i \in 1..Len(enVuelo), resp \in RespuestasPedidos(ListasSeleccion) :
                /\ ResolverPedidos(i, resp)
                /\ ~LanzaCarga(request("/pedidos", resp))
                /\ ordenesActuales' = ListaDe(resp)
       /\ (\/ \E valor \in FiltrosPanel : CambioFiltro(valor)
           \/ \E ordenId \in 1..2 : verTicket(ordenId)
           \/ \E abre \in BOOLEAN : imprimirTicket(abre)
           \/ \E t \in 1..2, b \in 1..2 : cambiarEstadoOrden(t, b, 1)
           \/ \E resp \in RespuestasPatch : ResolverPatch(1, resp))
          => ordenesActuales' = ordenesActuales]_vars

\* the cards are shown newest first while the list keeps the order it came in
C23_Testigo ==
    /\ Len(Visibles) = 2
    /\ Visibles[1].orden = ordenesActuales[2]
    /\ Visibles[2].orden = ordenesActuales[1]
    /\ ordenesActuales[1].id = 1

(* C25: whenever an order is selected it is an element of the list held, so   *)
(* the ticket previewed or printed is that of an order currently loaded.      *)
C25_SeleccionEnLista ==
    ordenSeleccionada # <<>> => ordenSeleccionada[1] \in Cargadas


(* C24: the step that resolves the PATCH of cambiarEstadoOrden puts up the    *)
(* success alert 'Orden #N actualizada a: ...' only when the PATCH was        *)
(* answered with a 2xx status; a PATCH answered with 401 puts up none.        *)
C24_ExitoSoloSiAceptado ==
    [][\A i \in 1..Len(enVuelo), resp \in RespuestasPatch :
          (/\ ResolverPatch(i, resp)
           /\ mensajeContainer'.tipo = "exito"
           /\ mensajeContainer'.texto = "Orden actualizada a: ")
          => resp \in PatchAceptado]_vars


\* what the dashboard shows: the container when it is on display, else the
\* empty state
VistaCargando ==
    /\ contenedorDisplay # "none"
    /\ vacioDisplay = "none"
    /\ contenedor = Spinner
VistaError ==
    /\ contenedorDisplay # "none"
    /\ vacioDisplay = "none"
    /\ contenedor.tipo = "error"
VistaLista ==
    \E ordenadas \in Ordenar(Filtrar(ordenesActuales, filtroActual)) :
        IF Len(ordenadas) = 0
        THEN contenedorDisplay = "none" /\ vacioDisplay = "block"
        ELSE /\ contenedorDisplay = "block"
             /\ vacioDisplay = "none"
             /\ contenedor = Tarjetas(ordenadas)

(* C26: once a load has been issued the view is, after every step, the        *)
(* spinner, the fetch-error panel, or the render of the list now held under   *)
(* the filter now in force (the empty state when nothing passes); and the     *)
(* step that resolves a load with a list renders it under the filter in force *)
(* at that step, whatever the filter was when the load was issued.            *)
C26_VistaCoherente ==
    [][/\ contenedor' # Inicial => (VistaCargando \/ VistaError \/ VistaLista)'
       /\ \A i \in 1..Len(enVuelo), resp \in RespuestasPedidos(ListasPanel) :
            (ResolverPedidos(i, resp) /\ ~LanzaCarga(request("/pedidos", resp)))
            => /\ VistaLista'
               /\ filtroActual' = filtroActual]_vars

\* a reload issued under "todos" has been answered with a list while the
\* filter was "entregado": the order it brought is held but not shown
C26_Testigo ==
    /\ ultimaCarga = "ok"
    /\ enVuelo = <<>>
    /\ filtroActual = "entregado"
    /\ Len(ordenesActuales) = 1
    /\ ordenesActuales[1].estado # "entregado"
    /\ contenedor = Spinner
    /\ contenedorDisplay = "none"
    /\ vacioDisplay = "block"


\* the login answers ApiClient.login returns normally from
LoginAceptado ==
    {resp \in RespuestasLogin :
        resp.llega /\ resp.status \in 200..299 /\ resp.data.tipo = "object"}

\* the step stores the token of an accepted login
CambioPorLogin ==
    \E resp \in LoginAceptado :
        /\ ResolverLogin(1, resp)
        /\ token' = setToken(resp.data.access_token)

\* the step is ApiClient.logout called from the page
CambioPorLogout == logout /\ token' = Null

\* the step resolves a request to another endpoint than /auth/login with 401
CambioPor401 ==
    /\ \/ ResolverMe(1, NoAutorizado)
       \/ ResolverPedidos(1, NoAutorizado)
    /\ token' = Null

\* a login that fails throws and leaves the token as it was; isAuthenticated
\* is true exactly when a non-empty token is stored
LoginFallidoYAutenticado ==
    /\ \A resp \in RespuestasLogin \ LoginAceptado :
          ResolverLogin(1, resp) =>
              /\ token' = token
              /\ resp.data.tipo # "null" \/ resp.status \notin 200..299
                    => request("/auth/login", resp).lanza
    /\ (isAuthenticated <=> token \notin {Null, ""})'

====
